---- MODULE Spec2Model ----
(***************************************************************************)
(* Model of the sleepdrifter lazy-expression library: expression nodes     *)
(* (Value, Function, Parameter, LazyMap, Lazy, binary operators), the      *)
(* shared Rc<Cell<Option<T>>> slot behind Parameter / ParameterContent,    *)
(* and the consuming evaluate walk.                                        *)
(***************************************************************************)
EXTENDS Integers, Sequences, FiniteSets, Bags, TLC

\* ---------------------------------------------------------------- bounds
MaxParams  == 2     \* parameter pairs created by Parameter::empty / new
MaxHandles == 2     \* expression handles the program owns at one time
MaxSize    == 3     \* Value/Function/Parameter/LazyMap/operator nodes per tree

Vals       == {2, 3}             \* values handed to Parameter::new and set
Literals   == {2}                \* values handed to lazy
Transforms == {"pow2", "boom"}   \* user closures given to map
Thunks     == {"five"}           \* user closures given to lazyf
Ops        == {"Add", "Sub"}     \* operator tags of the binary combinators

None == 0            \* Option::None in a slot (Some(v) is v, v >= 2)

VARIABLES
    slot,       \* slot[p]: contents of the Rc<Cell<Option<T>>> of pair p
    nparams,    \* number of parameter pairs created so far
    exprs,      \* bag of the expression handles the program owns
    written,    \* written[p]: value of the latest new/set on pair p, or None
    consumed,   \* consumed[p]: some evaluation has taken a value out of slot p
    fresh,      \* fresh[p]: new/set wrote slot p after the latest evaluation read it
    last        \* the most recent call and what it returned

vars == <<slot, nparams, exprs, written, consumed, fresh, last>>

\* ------------------------------------------------------- expression nodes
Node(k, v, f, c) == [k |-> k, v |-> v, f |-> f, c |-> c]

NoExpr == Node("None", 0, "", <<>>)

\* pub struct Value<T>(T)
Value(v) == Node("Value", v, "", <<>>)

\* pub struct Function<T, F>(F)
Function(t) == Node("Function", 0, t, <<>>)

\* pub struct Parameter<T>(Rc<Cell<Option<T>>>): v names the shared slot
Parameter(p) == Node("Parameter", p, "", <<>>)

\* Lazy::new
Lazy_new(e) == Node("Lazy", 0, "", <<e>>)

\* pub struct LazyMap(E, F, ..)
LazyMap(e, f) == Node("LazyMap", 0, f, <<e>>)

\* binary arithmetic combinator holding left, right and an operator tag
\* (module ops, declared at lib.rs:9; its behaviour is taken from the
\* specification, section 4.3)
BinaryOp(op, l, r) == Node(op, 0, "", <<l, r>>)

\* pub fn lazy
lazy(v) == Lazy_new(Value(v))

\* pub fn lazyf
lazyf(t) == Lazy_new(Function(t))

\* Expression::map
map(e, f) == Lazy_new(LazyMap(e, f))

\* operator overloads on expressions
combine(op, l, r) == Lazy_new(BinaryOp(op, l, r))

RECURSIVE Size(_)
Size(e) ==
    IF e.k = "Lazy" THEN Size(e.c[1])
    ELSE IF Len(e.c) = 0 THEN 1
    ELSE IF Len(e.c) = 1 THEN 1 + Size(e.c[1])
    ELSE 1 + Size(e.c[1]) + Size(e.c[2])

\* slots named by the Parameter leaves of e, left to right
RECURSIVE Params(_)
Params(e) ==
    IF e.k = "Parameter" THEN <<e.v>>
    ELSE IF Len(e.c) = 0 THEN <<>>
    ELSE IF Len(e.c) = 1 THEN Params(e.c[1])
    ELSE Params(e.c[1]) \o Params(e.c[2])

\* #[derive(Clone)] is present on every node type except Function
RECURSIVE Clonable(_)
Clonable(e) ==
    IF e.k = "Function" THEN FALSE
    ELSE \A i \in 1..Len(e.c) : Clonable(e.c[i])

\* ------------------------------------------------------------ user closures
\* A call returns a value or panics.  A panic unwinds through every enclosing
\* evaluate; the Rc cells outlive it, so the slots stay observable afterwards
\* through the setters and the clones (catch_unwind, #[should_panic] tests).
Ret(v)  == [ok |-> TRUE, val |-> v]
Panic   == [ok |-> FALSE, val |-> 0]

ApplyTransform(f, x) ==
    IF f = "pow2" THEN Ret(x * x) ELSE Panic

CallThunk(t) == Ret(5)

ApplyOp(op, a, b) ==
    IF op = "Add" THEN a + b ELSE a - b

\* ------------------------------------------------------------- the slot
\* variant: the first value stays, as with Option::get_or_insert
set_keep_first(s, p, value) == IF s[p] = None THEN [s EXCEPT ![p] = value] ELSE s

\* variant: set does nothing
set_ignored(s, p, value) == s

\* ParameterContent::set: self.0.replace(Some(value))
ParameterContent_set(s, p, value) == [s EXCEPT ![p] = value]

\* Parameter::create_with: Rc::new(Cell::new(value))
create_with(s, p, value) == [s EXCEPT ![p] = value]

\* variant: reads the slot and leaves the value in it
take_peek(s, p) == [val |-> s[p], slot |-> s]

\* variant: every parameter shares one cell, so a take empties them all
take_all(s, p) == [val |-> s[p], slot |-> [q \in DOMAIN s |-> None]]

\* Parameter::take: self.0.replace(None)
take(s, p) == [val |-> s[p], slot |-> [s EXCEPT ![p] = None]]

\* ------------------------------------------------------------- evaluation
Ev(kind, p, f, x) == [ev |-> kind, p |-> p, f |-> f, x |-> x]

Res(ok, val, s, log) == [ok |-> ok, val |-> val, slot |-> s, log |-> log]

\* variant: unwrap_or_default in place of expect
Parameter_evaluate_default(p, s, log) ==
    LET t == take(s, p)
    IN  Res(TRUE, t.val, t.slot, Append(log, Ev("take", p, "", t.val)))

\* impl Expression<T> for Parameter<T>: self.take().expect(..)
Parameter_evaluate(p, s, log) ==
    LET t == take(s, p)
        l == Append(log, Ev("take", p, "", t.val))
    IN  IF t.val = None THEN Res(FALSE, 0, t.slot, Append(l, Ev("unbound", p, "", 0)))
        ELSE Res(TRUE, t.val, t.slot, l)

\* impl Expression<T> for Value<T>: self.0
Value_evaluate(v, s, log) == Res(TRUE, v, s, log)

\* impl Expression<T> for Function<T, F>: self.0()
Function_evaluate(t, s, log) ==
    LET r == CallThunk(t)
    IN  Res(r.ok, r.val, s, Append(log, Ev("call", 0, t, 0)))

\* variant: the transform runs on whatever the inner evaluation left behind
LazyMap_apply_always(f, r) ==
    LET a == ApplyTransform(f, r.val)
    IN  Res(a.ok, a.val, r.slot, Append(r.log, Ev("apply", 0, f, r.val)))

\* LazyMap::evaluate: f(expr.evaluate())
LazyMap_apply(f, r) ==
    IF ~r.ok THEN r
    ELSE LET a == ApplyTransform(f, r.val)
         IN  Res(a.ok, a.val, r.slot, Append(r.log, Ev("apply", 0, f, r.val)))

\* variant: operands handed to the operator in the wrong order
BinaryOp_apply_swapped(op, l, r) ==
    IF ~r.ok THEN r
    ELSE Res(TRUE, ApplyOp(op, r.val, l.val), r.slot,
             Append(r.log, Ev("op", 0, op, 0)))

\* operator applied to the two operand values
BinaryOp_apply(op, l, r) ==
    IF ~r.ok THEN r
    ELSE Res(TRUE, ApplyOp(op, l.val, r.val), r.slot,
             Append(r.log, Ev("op", 0, op, 0)))

RECURSIVE evaluate(_, _, _)
RECURSIVE BinaryOp_evaluate(_, _, _, _, _)

\* binary combinator: op(left.evaluate(), right.evaluate()), left first
BinaryOp_evaluate(op, left, right, s, log) ==
    LET l == evaluate(left, s, log)
    IN  IF ~l.ok THEN l
        ELSE BinaryOp_apply(op, l, evaluate(right, l.slot, l.log))

\* Expression::evaluate, dispatched on the node type
evaluate(e, s, log) ==
    CASE e.k = "Value"     -> Value_evaluate(e.v, s, log)
      [] e.k = "Function"  -> Function_evaluate(e.f, s, log)
      [] e.k = "Parameter" -> Parameter_evaluate(e.v, s, log)
      [] e.k = "Lazy"      -> evaluate(e.c[1], s, log)
      [] e.k = "LazyMap"   -> LazyMap_apply(e.f, evaluate(e.c[1], s, log))
      [] OTHER             -> BinaryOp_evaluate(e.k, e.c[1], e.c[2], s, log)

\* variant: map evaluates its receiver on the spot
map_call_eager(e, f, s) == LazyMap_apply(f, evaluate(e, s, <<>>))

\* what calling Expression::map does besides building the node: nothing
map_call(e, f, s) == Res(TRUE, 0, s, <<>>)

\* --------------------------------------------------------------- the state
Handles == BagToSet(exprs)

Owned == BagCardinality(exprs)

Put(b, e)  == b (+) SetToBag({e})
Drop(b, e) == b (-) SetToBag({e})

\* record of a call: its arguments, what it returned or whether it panicked,
\* the events of its evaluation, and slot / consumed / fresh as they were before it
Call(op, e, p, v, r, pre) ==
    [op |-> op, e |-> e, p |-> p, v |-> v,
     ok |-> r.ok, val |-> r.val, log |-> r.log, pre |-> pre, was |-> consumed,
     set |-> fresh]

Unit(s) == Res(TRUE, 0, s, <<>>)

Init ==
    /\ slot = [p \in 1..MaxParams |-> None]
    /\ nparams = 0
    /\ exprs = EmptyBag
    /\ written = [p \in 1..MaxParams |-> None]
    /\ consumed = [p \in 1..MaxParams |-> FALSE]
    /\ fresh = [p \in 1..MaxParams |-> FALSE]
    /\ last = Call("init", NoExpr, 0, 0, Unit(slot), slot)

\* let (param, setter) = Parameter::empty()
ParameterEmpty ==
    /\ nparams < MaxParams
    /\ Owned < MaxHandles
    /\ LET p == nparams + 1 IN
        /\ nparams' = p
        /\ slot' = create_with(slot, p, None)
        /\ exprs' = Put(exprs, Parameter(p))
        /\ last' = Call("empty", Parameter(p), p, None, Unit(slot'), slot)
    /\ UNCHANGED <<written, consumed, fresh>>

\* let (param, setter) = Parameter::new(value)
ParameterNew ==
    /\ nparams < MaxParams
    /\ Owned < MaxHandles
    /\ \E value \in Vals :
        LET p == nparams + 1 IN
        /\ nparams' = p
        /\ slot' = create_with(slot, p, value)
        /\ written' = [written EXCEPT ![p] = value]
        /\ fresh' = [fresh EXCEPT ![p] = TRUE]
        /\ exprs' = Put(exprs, Parameter(p))
        /\ last' = Call("new", Parameter(p), p, value, Unit(slot'), slot)
    /\ UNCHANGED consumed

\* setter.set(value)
Set ==
    \E p \in 1..nparams, value \in Vals :
        /\ slot' = ParameterContent_set(slot, p, value)
        /\ written' = [written EXCEPT ![p] = value]
        /\ fresh' = [fresh EXCEPT ![p] = TRUE]
        /\ last' = Call("set", NoExpr, p, value, Unit(slot'), slot)
        /\ UNCHANGED <<nparams, exprs, consumed>>

\* lazy(value)
LazyValue ==
    /\ Owned < MaxHandles
    /\ \E value \in Literals :
        /\ exprs' = Put(exprs, lazy(value))
        /\ last' = Call("lazy", lazy(value), 0, value, Unit(slot), slot)
    /\ UNCHANGED <<slot, nparams, written, consumed, fresh>>

\* lazyf(thunk)
LazyFunction ==
    /\ Owned < MaxHandles
    /\ \E t \in Thunks :
        /\ exprs' = Put(exprs, lazyf(t))
        /\ last' = Call("lazyf", lazyf(t), 0, 0, Unit(slot), slot)
    /\ UNCHANGED <<slot, nparams, written, consumed, fresh>>

\* e.map(f)
Map ==
    \E e \in Handles, f \in Transforms :
        /\ Size(e) < MaxSize
        /\ LET r == map_call(e, f, slot) IN
            /\ slot' = r.slot
            /\ exprs' = IF r.ok THEN Put(Drop(exprs, e), map(e, f)) ELSE Drop(exprs, e)
            /\ last' = Call("map", map(e, f), 0, 0, r, slot)
        /\ UNCHANGED <<nparams, written, consumed, fresh>>

\* l + r, l - r
Combine ==
    \E l \in Handles, r \in Handles, op \in Ops :
        /\ l = r => CopiesIn(l, exprs) >= 2
        /\ Size(l) + Size(r) < MaxSize
        /\ exprs' = Put(Drop(Drop(exprs, l), r), combine(op, l, r))
        /\ last' = Call("combine", combine(op, l, r), 0, 0, Unit(slot), slot)
        /\ UNCHANGED <<slot, nparams, written, consumed, fresh>>

\* e.clone()
Clone ==
    \E e \in Handles :
        /\ Clonable(e)
        /\ Owned < MaxHandles
        /\ exprs' = Put(exprs, e)
        /\ last' = Call("clone", e, 0, 0, Unit(slot), slot)
        /\ UNCHANGED <<slot, nparams, written, consumed, fresh>>

\* e.evaluate()
Evaluate ==
    \E e \in Handles :
        LET r == evaluate(e, slot, <<>>) IN
        /\ exprs' = Drop(exprs, e)
        /\ slot' = r.slot
        /\ consumed' = [p \in 1..MaxParams |->
                          consumed[p] \/ \E i \in 1..Len(r.log) :
                              /\ r.log[i].ev = "take" /\ r.log[i].p = p
                              /\ r.log[i].x # None]
        /\ fresh' = [p \in 1..MaxParams |->
                       fresh[p] /\ ~\E i \in 1..Len(r.log) :
                           r.log[i].ev = "take" /\ r.log[i].p = p]
        /\ last' = Call("evaluate", e, 0, 0, r, slot)
        /\ UNCHANGED <<nparams, written>>

Next ==
    \/ ParameterEmpty
    \/ ParameterNew
    \/ Set
    \/ LazyValue
    \/ LazyFunction
    \/ Map
    \/ Combine
    \/ Clone
    \/ Evaluate

Spec == Init /\ [][Next]_vars

\* ------------------------------------------------------------- properties
Evaluated == last.op = "evaluate"

\* slots taken by the last evaluation, in the order they were taken
TakeSeq(log) ==
    LET t == SelectSeq(log, LAMBDA x : x.ev = "take")
    IN  [i \in 1..Len(t) |-> t[i].p]

Taken(p) == \E i \in 1..Len(last.log) : last.log[i].ev = "take" /\ last.log[i].p = p

Unbound == Len(last.log) > 0 /\ last.log[Len(last.log)].ev = "unbound"

\* the leaf an evaluation reaches first
RECURSIVE Leftmost(_)
Leftmost(e) == IF Len(e.c) = 0 THEN e ELSE Leftmost(e.c[1])

\* no closure of e panics
RECURSIVE Total(_)
Total(e) == e.f # "boom" /\ \A i \in 1..Len(e.c) : Total(e.c[i])

ParamSet(e) == {Params(e)[i] : i \in 1..Len(Params(e))}

\* the value of e when each parameter p stands for env[p]
RECURSIVE Denote(_, _)
Denote(e, env) ==
    CASE e.k = "Value"     -> e.v
      [] e.k = "Function"  -> 5
      [] e.k = "Parameter" -> env[e.v]
      [] e.k = "Lazy"      -> Denote(e.c[1], env)
      [] e.k = "LazyMap"   -> Denote(e.c[1], env) * Denote(e.c[1], env)
      [] e.k = "Add"       -> Denote(e.c[1], env) + Denote(e.c[2], env)
      [] OTHER             -> Denote(e.c[1], env) - Denote(e.c[2], env)

TypeOK ==
    /\ nparams \in 0..MaxParams
    /\ Owned <= MaxHandles
    /\ \A e \in Handles : Size(e) <= MaxSize
    /\ \A p \in 1..MaxParams : slot[p] = IF fresh[p] THEN written[p] ELSE None

\* C1: the first evaluation of a parameter returns the value of the most recent
\* set (or of new when no set was made), bare or under a map.
C1_LastWriteWins ==
    \A p \in 1..MaxParams :
        (Evaluated /\ ~last.was[p] /\ written[p] # None) =>
            /\ last.e = Parameter(p) => (last.ok /\ last.val = written[p])
            /\ last.e = map(Parameter(p), "pow2") =>
                   (last.ok /\ last.val = written[p] * written[p])

C1_Witness ==
    /\ Evaluated /\ last.e = Parameter(1) /\ ~last.was[1]
    /\ written[1] = 3 /\ last.ok /\ last.val = 3

\* C2: an evaluation that reads an Empty slot fails with the unbound-parameter
\* error at that read, whatever map or operator nodes wrap the parameter.
C2_UnboundIsFatal ==
    Evaluated =>
        /\ (\E i \in 1..Len(last.log) :
                last.log[i].ev = "take" /\ last.log[i].x = None)
              => (~last.ok /\ Unbound)
        /\ \A p \in 1..MaxParams :
              (Leftmost(last.e) = Parameter(p) /\ last.pre[p] = None)
                  => (~last.ok /\ Unbound)

C2_Witness ==
    /\ Evaluated /\ last.e.k = "Lazy" /\ Params(last.e) = <<1, 2>>
    /\ last.pre[1] # None /\ last.pre[2] = None /\ ~last.ok /\ Unbound

\* C3: evaluating a Parameter whose slot is Occupied(v) returns v and leaves the
\* slot Empty; after a successful evaluation no slot it read is still Occupied.
C3_OneShotTake ==
    Evaluated =>
        /\ \A p \in 1..MaxParams :
              (last.e = Parameter(p) /\ last.pre[p] # None) =>
                  (last.ok /\ last.val = last.pre[p] /\ slot[p] = None)
        /\ last.ok => \A i \in 1..Len(Params(last.e)) : slot[Params(last.e)[i]] = None

C3_Witness ==
    /\ Evaluated /\ last.e = Parameter(1) /\ last.pre[1] = 2
    /\ last.ok /\ last.val = 2 /\ slot[1] = None

\* C4: a graph over parameters x and y, cloned before any evaluation, returns
\* on each evaluation the value computed from the bindings set just before it.
C4_Rebinding ==
    (/\ Evaluated /\ Total(last.e)
     /\ {1, 2} \subseteq ParamSet(last.e)
     /\ Cardinality(ParamSet(last.e)) = Len(Params(last.e))
     /\ \A p \in ParamSet(last.e) : last.set[p])
        => (last.ok /\ last.val = Denote(last.e, written))

C4_Witness ==
    /\ Evaluated /\ last.e = combine("Sub", Parameter(1), Parameter(2))
    /\ last.was[1] /\ last.was[2]
    /\ written[1] = 2 /\ written[2] = 3
    /\ last.ok /\ last.val = 0 - 1

\* C5 as stated: a set made after the parameter has been evaluated leaves the
\* slot as it was.
C5_SetAfterReadNoEffect ==
    (last.op = "set" /\ last.was[last.p]) => slot = last.pre

\* C5 amended: a set made after the parameter has been evaluated stores its
\* value in the slot like any other set, and touches no other slot.
C5_SetAfterReadStores ==
    (last.op = "set" /\ last.was[last.p]) =>
        /\ slot[last.p] = last.v
        /\ \A q \in 1..MaxParams : q # last.p => slot[q] = last.pre[q]

C5_Witness ==
    /\ last.op = "set" /\ last.p = 1 /\ last.was[1]
    /\ last.pre[1] = None /\ slot[1] = 3

\* C6: evaluating map(e, g) evaluates e once, first, and then applies g once to
\* its result; when e fails g is not applied and the failure is the result.
C6_MapEvaluate ==
    (Evaluated /\ last.e.k = "Lazy" /\ last.e.c[1].k = "LazyMap") =>
        LET g == last.e.c[1].f
            r == evaluate(last.e.c[1].c[1], last.pre, <<>>)
            a == ApplyTransform(g, r.val)
        IN  IF r.ok
            THEN /\ last.ok = a.ok
                 /\ last.val = a.val
                 /\ last.log = Append(r.log, Ev("apply", 0, g, r.val))
                 /\ slot = r.slot
            ELSE /\ ~last.ok
                 /\ last.log = r.log
                 /\ slot = r.slot

C6_Witness ==
    /\ Evaluated /\ last.e = map(map(Parameter(1), "pow2"), "pow2")
    /\ last.pre[1] = 3 /\ last.ok /\ last.val = 81
    /\ Len(last.log) = 3

\* C7: a binary combinator evaluates left, then right, each once, and returns
\* op(left_value, right_value); the slots of left are taken before those of right.
C7_BinaryOp ==
    (Evaluated /\ last.e.k = "Lazy" /\ last.e.c[1].k \in Ops) =>
        LET n == last.e.c[1]
            l == evaluate(n.c[1], last.pre, <<>>)
            r == evaluate(n.c[2], l.slot, l.log)
        IN  IF ~l.ok THEN ~last.ok /\ last.log = l.log /\ slot = l.slot
            ELSE IF ~r.ok THEN ~last.ok /\ last.log = r.log /\ slot = r.slot
            ELSE /\ last.ok
                 /\ last.val = ApplyOp(n.k, l.val, r.val)
                 /\ last.log = Append(r.log, Ev("op", 0, n.k, 0))
                 /\ TakeSeq(last.log) = Params(n.c[1]) \o Params(n.c[2])
                 /\ slot = r.slot

C7_Witness ==
    /\ Evaluated /\ last.e = combine("Sub", Parameter(2), Parameter(1))
    /\ last.pre[1] = 2 /\ last.pre[2] = 3
    /\ last.ok /\ last.val = 1 /\ TakeSeq(last.log) = <<2, 1>>

\* C8: calling map evaluates nothing, cannot fail, does not run the transform
\* and changes no slot; the new node is owned by the caller in place of e.
C8_MapIsLazy ==
    last.op = "map" =>
        /\ last.ok
        /\ last.log = <<>>
        /\ slot = last.pre
        /\ last.e \in Handles

C8_Witness ==
    /\ last.op = "map" /\ last.e = map(Parameter(1), "boom")
    /\ slot[1] = None /\ last.ok

\* C9 as stated: after a failed evaluation every slot is as it was before it.
C9_FailureLeavesSlots ==
    (Evaluated /\ ~last.ok) => slot = last.pre

\* C9 amended: after a failed evaluation the slots it read before failing are
\* Empty and every other slot is as it was before the call.
C9_FailureEmptiesReadSlots ==
    (Evaluated /\ ~last.ok) =>
        \A p \in 1..MaxParams :
            slot[p] = IF Taken(p) THEN None ELSE last.pre[p]

C9_Witness ==
    /\ Evaluated /\ ~last.ok /\ Unbound
    /\ last.e = combine("Add", Parameter(1), Parameter(2))
    /\ last.pre[1] = 2 /\ last.pre[2] = None
    /\ slot[1] = None

\* C10 as stated: a clone evaluated after the original, with no set in between,
\* still yields the value the slot held.
C10_CloneKeepsValue ==
    \A p \in 1..MaxParams :
        (/\ Evaluated /\ last.e = Parameter(p)
         /\ last.was[p] /\ ~last.set[p])
            => (last.ok /\ last.val = written[p])

\* C10 amended: a clone reads the slot it shares with the original; evaluated
\* after the original it fails as unbound unless a set came in between, and
\* then it yields the value of the latest set.
C10_CloneSharesSlot ==
    \A p \in 1..MaxParams :
        (Evaluated /\ last.e = Parameter(p) /\ last.was[p]) =>
            IF ~last.set[p]
            THEN ~last.ok /\ Unbound
            ELSE last.ok /\ last.val = written[p]

C10_Witness ==
    /\ Evaluated /\ last.e = Parameter(1) /\ last.was[1]
    /\ written[1] = 2 /\ ~last.set[1] /\ ~last.ok /\ Unbound

====
